---- MODULE Spec2Model ----
(***************************************************************************)
(* A model of app/app.py, the "Tracing Positional Viewer": the index       *)
(* clamp, the two cached page renderers, the overlay arithmetic and the    *)
(* script main(), which Streamlit runs once per user interaction.          *)
(***************************************************************************)
EXTENDS Integers, Sequences, FiniteSets, TLC

(***************************************************************************)
(* Bounds of the model.                                                    *)
(***************************************************************************)
\* ensure_index_bounds is tried on max_index in 0..MaxIdx and on every
\* index from -(MaxIdx+2) to MaxIdx+2.
MaxIdx == 4
\* Box coordinates are numerators over Den, from -2 (left of the page) to
\* MaxNum (right of it, MaxNum > Den).
MaxNum == 9
\* The number of entries the render cache may hold in SpecCache.
MaxEntries == 2
\* The number of clicks followed after a collection is loaded in SpecNav.
MaxClicks == 4

\* Box coordinates are eighths: dyadic fractions, for which the float
\* products x * width of the code are exact.
Den == 2 * 4

(***************************************************************************)
(* Program constants.                                                      *)
(***************************************************************************)
DefaultZoom == 2
PlaceholderWidth == 900
PlaceholderHeight == 600

(***************************************************************************)
(* Python values.                                                          *)
(***************************************************************************)
None == [t |-> "none", v |-> 0]
PyInt(n) == [t |-> "int", v |-> n]
\* a string that int() cannot parse
PyStr == [t |-> "str", v |-> 0]

Return(x) == [ok |-> TRUE, val |-> x, exc |-> "none"]
NoImage == [kind |-> "none", doc |-> "none", page |-> 0, zoom |-> 0,
            size |-> <<0, 0>>, rects |-> {}]
Raise(e) == [ok |-> FALSE, val |-> NoImage, exc |-> e]

\* int(x) of a float x = n/d: truncation toward zero.
int(n, d) == IF n >= 0 THEN n \div d ELSE -((-n) \div d)

\* round(x) of x = n/d to the nearest integer, halves to the even neighbour
\* (Python's round); used only to state the rounding the specification names.
round(n, d) ==
    LET fl == n \div d
        r2 == 2 * (n - fl * d)
    IN  IF r2 < d THEN fl
        ELSE IF r2 > d THEN fl + 1
        ELSE IF fl % 2 = 0 THEN fl ELSE fl + 1

min(a, b) == IF a < b THEN a ELSE b
max(a, b) == IF a > b THEN a ELSE b

(***************************************************************************)
(* ensure_index_bounds                                                     *)
(***************************************************************************)
ensure_index_bounds_noupper(index, max_index) ==
    IF index < 0 THEN 0 ELSE index

ensure_index_bounds(index, max_index) ==
    IF index < 0 THEN 0
    ELSE IF index > max_index THEN max_index
    ELSE index

(***************************************************************************)
(* Documents.  PDF_PATH is the bundled document; pdfA and pdfBad are byte  *)
(* buffers a user may upload (pdfBad is not a PDF); noSuchPath is a path   *)
(* that never resolves.  pdfLocked is a PDF that needs a password: it      *)
(* opens, and loading a page of it raises.                                 *)
(***************************************************************************)
PDF_PATH == "PDF_PATH"
Paths == {PDF_PATH, "noSuchPath"}
Buffers == {"pdfA", "pdfBad", "pdfLocked"}

page_count(doc) == IF doc = PDF_PATH THEN 3 ELSE 2

\* pixel size of a page at zoom 1: pages differ in size
PageSize(doc, page) ==
    IF doc = PDF_PATH THEN <<5, 3>>
    ELSE IF page = 0 THEN <<3, 4>> ELSE <<4, 2>>

\* page.get_pixmap(matrix=Matrix(zoom, zoom), alpha=False) and Image.frombytes
\* A negative zoom mirrors the page: the pixmap has the size of |zoom|.
Pixmap(doc, page, zoom) ==
    LET scale == IF zoom < 0 THEN -zoom ELSE zoom
    IN  [kind |-> "page", doc |-> doc, page |-> page, zoom |-> zoom,
         size |-> <<PageSize(doc, page)[1] * scale, PageSize(doc, page)[2] * scale>>,
         rects |-> {}]

\* page_index = max(0, min(page_index, doc.page_count - 1))
ClampPage_raw(page_index, count) == page_index

ClampPage(page_index, count) == max(0, min(page_index, count - 1))

\* doc.load_page(i): a negative i counts from the end, an i past the last
\* page raises ValueError("page not in document")
load_page(doc, i) ==
    IF i >= page_count(doc) THEN Raise("ValueError")
    ELSE IF i < 0 THEN Return(i + page_count(doc) * (1 + ((-i - 1) \div page_count(doc))))
    ELSE Return(i)

\* the body of "with fitz.open(...) as doc:" of both renderers; load_page
\* raises ValueError("document closed or encrypted") on a document that
\* needs a password.  zoom goes to fitz.Matrix as it is.
RenderPage(doc, page_index, zoom) ==
    LET page == load_page(doc, ClampPage(page_index, page_count(doc)))
    IN  IF doc = "pdfLocked" THEN Raise("ValueError(encrypted)")
        ELSE IF page.ok THEN Return(Pixmap(doc, page.val, zoom))
        ELSE Raise(page.exc)

\* A handle closed by a doc.close() that follows the body: an exception in
\* the body leaves it open.
with_doc_close_after(body) ==
    IF body.ok THEN <<"open", "close">> ELSE <<"open">>

\* "with fitz.open(...) as doc:" opens a handle, runs the body and closes
\* the handle when the body returns and when it raises.
with_doc(body) == <<"open", "close">>


(***************************************************************************)
(* State.                                                                  *)
(***************************************************************************)
VARIABLES
    fitz_available,   \* whether "import fitz" succeeded (fitz is not None)
    pillow_strict,    \* whether the installed Pillow rejects a rectangle with x1 < x0 or y1 < y0
    pdf_path_exists,  \* whether the file at PDF_PATH exists
    cache,            \* the st.cache_data stores of the two renderers: key -> image
    last,             \* the render request made by the latest step, if any
    session_state,    \* st.session_state: key -> value
    widgets,          \* the values the sidebar widgets hold
    view,             \* what the latest run of main() put on the page
    call              \* a call of a pure function and its result

vars == <<fitz_available, pillow_strict, pdf_path_exists, cache, last,
          session_state, widgets, view, call>>

envVars == <<fitz_available, pillow_strict>>
appVars == <<session_state, widgets, view>>

Zooms == {-1, DefaultZoom}
PageArgs == {-5, 0, 1, 10000}

(***************************************************************************)
(* The cached renderers.                                                   *)
(***************************************************************************)
render_pdf_page_from_path(path, page_index, zoom) ==
    IF ~fitz_available THEN Raise("RuntimeError")
    ELSE IF ~(path = PDF_PATH /\ pdf_path_exists) THEN Raise("FileNotFoundError")
    ELSE RenderPage(path, page_index, zoom)

render_pdf_page_from_bytes(raw, page_index, zoom) ==
    IF ~fitz_available THEN Raise("RuntimeError")
    ELSE IF raw = "pdfBad" THEN Raise("FileDataError")
    ELSE RenderPage(raw, page_index, zoom)

\* The body of the renderer fn on the given arguments.
Body(fn, src, page_index, zoom) ==
    IF fn = "render_pdf_page_from_path"
    THEN render_pdf_page_from_path(src, page_index, zoom)
    ELSE render_pdf_page_from_bytes(src, page_index, zoom)

\* A key that holds the clamped page index, as the specification designs it.
CacheKey_clamped(fn, src, page_index, zoom) ==
    <<fn, src, ClampPage(page_index, page_count(src)), zoom>>

\* st.cache_data keys a call by the function and the arguments it was
\* called with (a bytes argument by its contents).
CacheKey(fn, src, page_index, zoom) == <<fn, src, page_index, zoom>>

\* A memo table that stores whatever the body did, a raised exception too.
cache_data_negative(store, key, computed) ==
    IF key \in DOMAIN store
    THEN [ret |-> IF store[key].kind = "none" THEN Raise("Cached") ELSE Return(store[key]),
          store |-> store, rasterized |-> FALSE]
    ELSE [ret |-> computed, store |-> store @@ (key :> computed.val), rasterized |-> TRUE]

\* A memo table that holds the latest result only.
cache_data_single(store, key, computed) ==
    IF key \in DOMAIN store
    THEN [ret |-> Return(store[key]), store |-> store, rasterized |-> FALSE]
    ELSE IF computed.ok
    THEN [ret |-> computed, store |-> (key :> computed.val), rasterized |-> TRUE]
    ELSE [ret |-> computed, store |-> store, rasterized |-> TRUE]

\* @st.cache_data: on a hit the stored value is returned and the body is not
\* run; on a miss the body runs, its return value is stored, and an
\* exception it raises passes to the caller with nothing stored.  No ttl and
\* no max_entries are given, so nothing is evicted.
cache_data(store, key, computed) ==
    IF key \in DOMAIN store
    THEN [ret |-> Return(store[key]), store |-> store, rasterized |-> FALSE]
    ELSE IF computed.ok
    THEN [ret |-> computed, store |-> store @@ (key :> computed.val), rasterized |-> TRUE]
    ELSE [ret |-> computed, store |-> store, rasterized |-> TRUE]

\* What a run of the renderer's body, ending with ret, does to document
\* handles: nothing when fitz is missing or fitz.open raises, else the
\* events of the with block.
BodyHandles(ret) ==
    IF ~ret.ok /\ ret.exc \in {"RuntimeError", "FileNotFoundError", "FileDataError"}
    THEN <<>>
    ELSE with_doc(ret)

\* A call of a cached renderer.
CachedRender(fn, src, page_index, zoom) ==
    cache_data(cache, CacheKey(fn, src, page_index, zoom),
               Body(fn, src, page_index, zoom))

NoRequest == [called |-> FALSE, repeat |-> FALSE, fn |-> "none", src |-> "none",
              page_index |-> 0, zoom |-> 0, rasterized |-> FALSE,
              handles |-> <<>>, ret |-> Raise("none")]

\* The record of a request: its arguments, whether the step before it made
\* the same request, whether the body (the rasterizer) ran, what the call
\* did to document handles, and the outcome.
Request(fn, src, page_index, zoom, r) ==
    [called |-> TRUE,
     repeat |-> last.called /\ <<last.fn, last.src, last.page_index, last.zoom>>
                                 = <<fn, src, page_index, zoom>>,
     fn |-> fn, src |-> src, page_index |-> page_index, zoom |-> zoom,
     rasterized |-> r.rasterized,
     handles |-> IF r.rasterized THEN BodyHandles(r.ret) ELSE <<>>,
     ret |-> r.ret]

(***************************************************************************)
(* The overlay arithmetic of main(): a normalized bbox (numerators over    *)
(* Den) to the pixel rectangle on an image of the given size.              *)
(***************************************************************************)
PixelRect_floor(bbox, size) ==
    <<(bbox[1] * size[1]) \div Den, (bbox[2] * size[2]) \div Den,
      (bbox[3] * size[1]) \div Den, (bbox[4] * size[2]) \div Den>>

PixelRect(bbox, size) ==
    <<int(bbox[1] * size[1], Den), int(bbox[2] * size[2], Den),
      int(bbox[3] * size[1], Den), int(bbox[4] * size[2], Den)>>

\* ImageDraw.Draw(img).rectangle([x0, y0, x1, y1], outline=..., width=4)
draw_rectangle(img, rect) ==
    IF pillow_strict /\ (rect[3] < rect[1] \/ rect[4] < rect[2])
    THEN Raise("ValueError")
    ELSE Return([img EXCEPT !.rects = @ \cup {rect}])

build_placeholder_image ==
    [kind |-> "placeholder", doc |-> "none", page |-> 0, zoom |-> 0,
     size |-> <<PlaceholderWidth, PlaceholderHeight>>, rects |-> {}]


(***************************************************************************)
(* Record collections a user may upload as JSON.  A record is a dict with  *)
(* optional text, page_no, page and bbox, or some other JSON value.        *)
(***************************************************************************)
NoBox == [t |-> "none", v |-> <<0, 0, 0, 0>>]
\* a list of four numbers, as numerators over Den
Box(b) == [t |-> "list4", v |-> b]
\* a list of four values that are not all numbers
BoxOfStrings == [t |-> "list4str", v |-> <<0, 0, 0, 0>>]
\* a value that is no list, or a list of another length
BoxOther == [t |-> "other", v |-> <<0, 0, 0, 0>>]

Dict(text, page_no, page, bbox) ==
    [dict |-> TRUE, text |-> text, page_no |-> page_no, page |-> page, bbox |-> bbox]
NotDict(text) ==
    [dict |-> FALSE, text |-> text, page_no |-> None, page |-> None, bbox |-> NoBox]

JsonFiles == {"jA", "jB", "jC", "jEmpty"}

\* load_tracing_data_from_bytes: json.loads of the upload
load_tracing_data_from_bytes(raw) ==
    IF raw = "jA" THEN
        << Dict("a1", PyInt(0), None, Box(<<2, 2, 6, 6>>)),
           Dict("a2", None, PyInt(0), NoBox),
           Dict("a3", PyInt(7), PyInt(0), Box(<<6, 1, 3, 9>>)) >>
    ELSE IF raw = "jB" THEN
        << Dict("b1", PyStr, None, NoBox),
           NotDict("b2") >>
    ELSE IF raw = "jC" THEN
        << Dict("c1", None, None, BoxOfStrings) >>
    ELSE << >>

\* hash(json_bytes): a function of the contents, not one to one (jA and jB
\* stand for two uploads whose hashes collide)
hash(raw) ==
    IF raw \in {"jA", "jB"} THEN "h1"
    ELSE IF raw = "jC" THEN "h2"
    ELSE "h3"

\* load_tracing_data_from_path: json.load of the file at the path, here
\* named by its contents
load_tracing_data_from_path(path) == load_tracing_data_from_bytes(path)

\* A generator that works: it writes the records of jA and returns the path.
generate_json_from_pdf_done(pdf_bytes, api_key) == Return("jA")

\* generate_json_from_pdf raises NotImplementedError, whatever it is given.
generate_json_from_pdf(pdf_bytes, api_key) == Raise("NotImplementedError")

\* int(x) of a value read from a record
PyIntOf(x) == IF x.t = "int" THEN Return(x.v) ELSE Raise("ValueError")

(***************************************************************************)
(* main(), in the order of the script.                                     *)
(***************************************************************************)
\* Nothing has been put on the page.  A view records the click that caused
\* the run, how the run ended ("info", "error", "raised", "page" or
\* "placeholder"), the images and warnings shown, the state the two buttons
\* were drawn in, the pos_index read from the session state at line 132, the
\* index the record was looked up with at line 149, and the record's fields.
BlankView == [clicked |-> "none", outcome |-> "none", raised |-> "none",
              images |-> <<>>, warnings |-> 0, buttons |-> FALSE,
              prev_disabled |-> TRUE, next_disabled |-> TRUE,
              stored_index |-> -1, looked_up |-> -1, data_len |-> 0,
              page_no |-> 0, text |-> "none", bbox |-> NoBox]

\* data[i] of a Python list: a negative i counts from the end, an i outside
\* the list raises IndexError
GetItem(data, i) ==
    IF i >= Len(data) \/ i < -Len(data) THEN Raise("IndexError")
    ELSE IF i < 0 THEN Return(Len(data) + i + 1)
    ELSE Return(i + 1)

\* st.session_state.k = v
SetItem(ss, k, v) == [x \in DOMAIN ss \cup {k} |-> IF x = k THEN v ELSE ss[x]]

\* if k not in st.session_state: st.session_state.k = v
SetDefault(ss, k, v) == IF k \in DOMAIN ss THEN ss ELSE SetItem(ss, k, v)

\* lines 131-147: the index after clamping the stored one and applying the
\* click of this run
Navigate_unclamped(pos_index, max_index, prev_clicked, next_clicked) ==
    IF next_clicked THEN pos_index + 1
    ELSE IF prev_clicked THEN pos_index - 1
    ELSE pos_index

Navigate(pos_index, max_index, prev_clicked, next_clicked) ==
    LET current_index == ensure_index_bounds(pos_index, max_index)
        after_prev == IF prev_clicked
                      THEN ensure_index_bounds(current_index - 1, max_index)
                      ELSE current_index
    IN  IF next_clicked
        THEN ensure_index_bounds(current_index + 1, max_index)
        ELSE after_prev

\* lines 158-163: the page number of the record, outside any try
ResolvePage(current_item) ==
    IF current_item.dict /\ current_item.page_no.t # "none"
    THEN PyIntOf(current_item.page_no)
    ELSE IF current_item.dict /\ current_item.page.t # "none"
    THEN PyIntOf(current_item.page)
    ELSE Return(0)

\* A memo table that hands out the stored object itself: drawing on the
\* returned image draws on the stored one.
StoredAfterDraw_shared(store, key, drawn) == [store EXCEPT ![key] = drawn]

\* st.cache_data stores a pickled copy and returns a fresh copy on a hit, so
\* drawing on the returned image leaves the stored bytes as they are.
StoredAfterDraw(store, key, drawn) == store

\* lines 178-188: the overlay on the rendered image
Overlay(current_item, img) ==
    IF current_item.dict /\ current_item.bbox.t = "list4str"
    THEN Raise("TypeError")
    ELSE IF current_item.dict /\ current_item.bbox.t = "list4"
    THEN draw_rectangle(img, PixelRect(current_item.bbox.v, img.size))
    ELSE Return(img)

\* lines 165-192: the right column.  Gives the images shown, the warnings,
\* the store and the render request made.
RightColumn(w, current_item, page_no) ==
    LET fn == IF w.pdf_upload # "none" THEN "render_pdf_page_from_bytes"
              ELSE "render_pdf_page_from_path"
        src == IF w.pdf_upload # "none" THEN w.pdf_upload ELSE PDF_PATH
        r == CachedRender(fn, src, page_no, DefaultZoom)
        o == Overlay(current_item, r.ret.val)
        placeholder(store, req) ==
            [outcome |-> "placeholder", images |-> <<build_placeholder_image>>,
             warnings |-> 1, store |-> store, request |-> req]
    IN  IF ~fitz_available THEN placeholder(cache, NoRequest)
        ELSE IF w.pdf_upload = "none" /\ ~pdf_path_exists
        THEN placeholder(cache, NoRequest)
        ELSE IF ~r.ret.ok
        THEN placeholder(r.store, Request(fn, src, page_no, DefaultZoom, r))
        ELSE IF ~o.ok
        THEN placeholder(r.store, Request(fn, src, page_no, DefaultZoom, r))
        ELSE [outcome |-> "page", images |-> <<o.val>>, warnings |-> 0,
              store |-> StoredAfterDraw(r.store,
                            CacheKey(fn, src, page_no, DefaultZoom), o.val),
              request |-> Request(fn, src, page_no, DefaultZoom, r)]

\* One run of main() with the widget values w and the click that caused it.
main(w, prev_clicked, next_clicked) ==
    LET ss0 == SetDefault(SetDefault(session_state, "json_hash", "None"),
                          "pdf_hash", "None")
        \* lines 101-111: generate_json_from_pdf always raises
        \* NotImplementedError, so data stays None and a warning is shown
        gen_warning == IF w.json_mode = "Generate from PDF" /\ w.pdf_upload # "none"
                       THEN 1 ELSE 0
        \* lines 101-109: the generator is called when a PDF and a key are
        \* given; were it to return, its records would be loaded and
        \* pos_index set to 0
        gen == IF w.json_mode = "Generate from PDF" /\ w.pdf_upload # "none"
                  /\ w.api_key # ""
               THEN generate_json_from_pdf(w.pdf_upload, w.api_key)
               ELSE Raise("none")
        json_upload == IF w.json_mode = "Upload JSON" THEN w.json_upload ELSE "none"
        ss1 == IF gen.ok THEN SetItem(ss0, "pos_index", 0)
               ELSE IF ss0["json_hash"] # hash(json_upload)
               THEN SetItem(SetItem(ss0, "json_hash", hash(json_upload)), "pos_index", 0)
               ELSE ss0
        data == IF gen.ok THEN load_tracing_data_from_path(gen.val)
                ELSE load_tracing_data_from_bytes(json_upload)
        ss2 == SetDefault(ss1, "pos_index", 0)
        max_index == Len(data) - 1
        current_index == ensure_index_bounds(ss2["pos_index"], max_index)
        pos_index == Navigate(ss2["pos_index"], max_index, prev_clicked, next_clicked)
        ss3 == SetItem(ss2, "pos_index", pos_index)
        item == GetItem(data, pos_index)
        current_item == data[item.val]
        page_no == ResolvePage(current_item)
        right == RightColumn(w, current_item, page_no.val)
        clicked == IF next_clicked THEN "next"
                   ELSE IF prev_clicked THEN "prev" ELSE "none"
        top == [BlankView EXCEPT !.clicked = clicked, !.warnings = gen_warning]
        left == [top EXCEPT
                    !.buttons = TRUE,
                    !.prev_disabled = (current_index = 0),
                    !.next_disabled = (current_index = max_index),
                    !.stored_index = ss2["pos_index"],
                    !.looked_up = pos_index,
                    !.data_len = Len(data),
                    !.text = current_item.text,
                    !.bbox = current_item.bbox]
    IN  IF ~gen.ok /\ json_upload = "none"
        THEN [session_state |-> ss0, cache |-> cache, last |-> NoRequest,
              view |-> [top EXCEPT !.outcome = "info"]]
        ELSE IF Len(data) = 0
        THEN [session_state |-> ss1, cache |-> cache, last |-> NoRequest,
              view |-> [top EXCEPT !.outcome = "error"]]
        ELSE IF ~item.ok
        THEN [session_state |-> ss3, cache |-> cache, last |-> NoRequest,
              view |-> [top EXCEPT !.outcome = "raised", !.raised = item.exc,
                                   !.buttons = TRUE,
                                   !.prev_disabled = (current_index = 0),
                                   !.next_disabled = (current_index = max_index),
                                   !.stored_index = ss2["pos_index"],
                                   !.looked_up = pos_index,
                                   !.data_len = Len(data)]]
        ELSE IF ~page_no.ok
        THEN [session_state |-> ss3, cache |-> cache, last |-> NoRequest,
              view |-> [left EXCEPT !.outcome = "raised", !.raised = page_no.exc]]
        ELSE [session_state |-> ss3, cache |-> right.store, last |-> right.request,
              view |-> [left EXCEPT !.outcome = right.outcome,
                                    !.images = right.images,
                                    !.page_no = page_no.val,
                                    !.warnings = gen_warning + right.warnings]]

(***************************************************************************)
(* Initial values.                                                         *)
(***************************************************************************)
NoCall == [fn |-> "none", args |-> <<>>, out |-> <<>>]
NoKey == "absent"
EmptyCache == [k \in {} |-> NoImage]

\* The widgets before the user touched any: no key, the first radio option,
\* no uploads.
InitWidgets == [api_key |-> "", json_mode |-> "Upload JSON",
                pdf_upload |-> "none", json_upload |-> "none"]

InitApp ==
    /\ session_state = [k \in {} |-> 0]
    /\ widgets = InitWidgets
    /\ view = BlankView

InitEnv ==
    /\ fitz_available \in BOOLEAN
    /\ pillow_strict \in BOOLEAN
    /\ pdf_path_exists \in BOOLEAN
    /\ cache = EmptyCache
    /\ last = NoRequest

(***************************************************************************)
(* SpecPure: the pure functions on inputs drawn from bounded sets.         *)
(***************************************************************************)
Coords == -2 .. MaxNum
Sizes == {<<400, 200>>, <<10, 6>>, <<5, 3>>}

ClampCalls ==
    {[fn |-> "ensure_index_bounds", args |-> <<i, m>>, out |-> <<>>] :
        i \in -(MaxIdx + 2) .. (MaxIdx + 2), m \in 0 .. MaxIdx}

OverlayCalls ==
    {[fn |-> "overlay", args |-> <<<<x0, y0, x1, y1>>, sz>>, out |-> <<>>] :
        x0 \in Coords, y0 \in Coords, x1 \in Coords, y1 \in Coords, sz \in Sizes}

InitPure ==
    /\ InitApp
    /\ fitz_available = TRUE
    /\ pillow_strict = FALSE
    /\ pdf_path_exists = TRUE
    /\ cache = EmptyCache
    /\ last = NoRequest
    /\ call \in ClampCalls \cup OverlayCalls

\* ensure_index_bounds(index, max_index), and once more on its result
ApplyClamp ==
    /\ call.fn = "ensure_index_bounds"
    /\ call.out = <<>>
    /\ LET r == ensure_index_bounds(call.args[1], call.args[2])
       IN  call' = [call EXCEPT !.out = <<r, ensure_index_bounds(r, call.args[2])>>]
    /\ UNCHANGED <<envVars, pdf_path_exists, cache, last, appVars>>

\* lines 181-186 of main() on a bbox and an image size
ApplyOverlay ==
    /\ call.fn = "overlay"
    /\ call.out = <<>>
    /\ call' = [call EXCEPT !.out = PixelRect(call.args[1], call.args[2])]
    /\ UNCHANGED <<envVars, pdf_path_exists, cache, last, appVars>>

NextPure == ApplyClamp \/ ApplyOverlay

SpecPure == InitPure /\ [][NextPure]_vars

(***************************************************************************)
(* SpecCache: requests to the two cached renderers.                        *)
(***************************************************************************)
InitCache ==
    /\ InitApp
    /\ InitEnv
    /\ pillow_strict = FALSE
    /\ call = NoCall

RenderRequest(fn, src, page_index, zoom) ==
    LET r == CachedRender(fn, src, page_index, zoom)
    IN  /\ Cardinality(DOMAIN r.store) <= MaxEntries
        /\ cache' = r.store
        /\ last' = Request(fn, src, page_index, zoom, r)
        /\ UNCHANGED <<envVars, pdf_path_exists, appVars, call>>

RequestFromPath ==
    \E path \in Paths, page_index \in PageArgs, zoom \in Zooms :
        RenderRequest("render_pdf_page_from_path", path, page_index, zoom)

RequestFromBytes ==
    \E raw \in Buffers, page_index \in PageArgs, zoom \in Zooms :
        RenderRequest("render_pdf_page_from_bytes", raw, page_index, zoom)

\* The file at PDF_PATH is put in place or removed.
SetPdfFile ==
    /\ pdf_path_exists' = ~pdf_path_exists
    /\ last' = NoRequest
    /\ UNCHANGED <<envVars, cache, appVars, call>>

NextCache == RequestFromPath \/ RequestFromBytes \/ SetPdfFile

SpecCache == InitCache /\ [][NextCache]_vars


(***************************************************************************)
(* Claims about the render cache, checked under SpecCache.                 *)
(***************************************************************************)
\* The arguments of the latest request, as a tuple.
Args(q) == <<q.fn, q.src, q.page_index, q.zoom>>

\* C1: once a render for (source, pageIndex, zoom) has succeeded it is
\* stored; every stored entry stays, unchanged, through every later step; a
\* request with the arguments of a stored entry returns the stored image and
\* does not run the rasterizer, also when it repeats the request before it.
C1_CacheHit ==
    [][ /\ \A k \in DOMAIN cache : k \in DOMAIN cache' /\ cache'[k] = cache[k]
        /\ \A k \in DOMAIN cache :
              (last'.called /\ Args(last') = k)
                  => (~last'.rasterized /\ last'.ret = Return(cache[k]))
        /\ (last'.called /\ last'.ret.ok)
              => (Args(last') \in DOMAIN cache'
                  /\ cache'[Args(last')] = last'.ret.val)
        /\ (last'.called /\ last'.repeat /\ last'.ret.ok) => ~last'.rasterized
      ]_vars

\* A hit on a stored entry after requests for other keys were stored.
C1_Witness ==
    /\ last.called /\ last.ret.ok /\ ~last.rasterized /\ ~last.repeat
    /\ Cardinality(DOMAIN cache) >= 2

\* C2: a request that fails ran the rasterizer (the same failing request
\* repeated runs it again), passes the failure to the caller and leaves the
\* cache as it was, with no entry for its arguments.
C2_FailuresNotCached ==
    [][ (last'.called /\ ~last'.ret.ok)
            => /\ last'.rasterized
               /\ last'.ret.exc \in {"RuntimeError", "FileNotFoundError",
                                     "FileDataError", "ValueError(encrypted)"}
               /\ cache' = cache
               /\ Args(last') \notin DOMAIN cache'
      ]_vars

\* The same failing request made twice in a row, with entries in the cache.
C2_Witness ==
    /\ last.called /\ last.repeat /\ ~last.ret.ok /\ last.rasterized
    /\ DOMAIN cache # {}

\* Requests of the same renderer, source and zoom whose page indices clamp
\* to the same page.
SamePage(k, q) ==
    /\ k[1] = q.fn /\ k[2] = q.src /\ k[4] = q.zoom
    /\ ClampPage(k[3], page_count(q.src)) = ClampPage(q.page_index, page_count(q.src))

\* C8 as claimed: a request whose page index clamps to the page of a stored
\* entry of the same source and zoom is a hit and does not run the rasterizer.
C8_ClampedKeyHit ==
    [][ \A k \in DOMAIN cache :
            (last'.called /\ SamePage(k, last')) => ~last'.rasterized ]_vars

\* C8 amended: the key is the renderer, the source identity, the page index
\* as passed and the zoom.  A request is a hit exactly when an entry for its
\* own arguments is stored; a request whose page index differs from that of
\* every stored entry runs the rasterizer, also when it clamps to the page of
\* a stored entry, and the image it stores equals that entry's.
C8_RawKey ==
    [][ /\ last'.called => (last'.rasterized <=> Args(last') \notin DOMAIN cache)
        /\ \A k \in DOMAIN cache' :
              (last'.called /\ last'.ret.ok /\ SamePage(k, last'))
                  => cache'[k] = last'.ret.val
      ]_vars

\* A miss that rasterized a page already stored under another page index.
C8_Witness ==
    /\ last.called /\ last.rasterized /\ last.ret.ok
    /\ \E k \in DOMAIN cache : SamePage(k, last) /\ k[3] # last.page_index

\* C9: a request that reached the rasterizer never fails on the page index
\* (no ValueError from load_page); when the document opened it loads page 0
\* for a negative index, the last page for an index past it, and the page
\* asked for otherwise.
C9_PageClamp ==
    /\ (last.called /\ last.rasterized)
          => /\ last.ret.exc # "ValueError"
             /\ last.ret.ok =>
                  LET n == page_count(last.src)
                      p == last.ret.val.page
                  IN  /\ p \in 0 .. (n - 1)
                      /\ last.page_index < 0 => p = 0
                      /\ last.page_index > n - 1 => p = n - 1
                      /\ last.page_index \in 0 .. (n - 1) => p = last.page_index
    /\ ClampPage(-5, 10) = 0
    /\ ClampPage(10000, 10) = 9

\* Index 10000 was rendered as the last page, and -5 is reachable likewise.
C9_Witness ==
    /\ last.called /\ last.rasterized /\ last.ret.ok
    /\ last.page_index = 10000
    /\ last.ret.val.page = page_count(last.src) - 1


\* The handles open after the events ev: opens less closes.
OpenAfter(ev) ==
    Cardinality({i \in 1 .. Len(ev) : ev[i] = "open"})
        - Cardinality({i \in 1 .. Len(ev) : ev[i] = "close"})

\* C11: every handle a render call opens is closed when the call returns
\* or raises, so none is open between calls; at no point of a call is more
\* than one open; a call that does not run the body opens none; the store
\* holds rendered images only, never a document.
C11_HandleRelease ==
    /\ OpenAfter(last.handles) = 0
    /\ \A n \in 0 .. Len(last.handles) :
          OpenAfter(SubSeq(last.handles, 1, n)) \in {0, 1}
    /\ (last.called /\ last.ret.ok /\ last.rasterized) => last.handles # <<>>
    /\ ~last.rasterized => last.handles = <<>>
    /\ \A k \in DOMAIN cache : cache[k].kind = "page"

\* A document was opened, the body raised, and the handle was closed.
C11_Witness ==
    /\ last.called /\ ~last.ret.ok
    /\ last.handles = <<"open", "close">>

\* C12 as claimed: a request with zoom <= 0 fails, with the InvalidZoom
\* condition when the backend is there and the document opens, and leaves
\* neither an image nor a cache entry.
C12_InvalidZoom ==
    (last.called /\ last.zoom <= 0)
        => /\ ~last.ret.ok
           /\ Args(last) \notin DOMAIN cache
           /\ last.handles # <<>> => last.ret.exc = "InvalidZoom"

(***************************************************************************)
(* Claims about the pure functions, checked under SpecPure.                *)
(***************************************************************************)
\* C4: ensure_index_bounds(index, maxIndex) with maxIndex >= 0 is 0 for
\* index < 0, maxIndex for index > maxIndex and index otherwise; the result
\* is in [0, maxIndex] and clamping it again changes nothing.
C4_IndexClamp ==
    (call.fn = "ensure_index_bounds" /\ call.out # <<>>)
        => LET index == call.args[1]
               maxIndex == call.args[2]
               r == call.out[1]
           IN  /\ index < 0 => r = 0
               /\ index > maxIndex => r = maxIndex
               /\ (index >= 0 /\ index <= maxIndex) => r = index
               /\ r >= 0 /\ r <= maxIndex
               /\ call.out[2] = r

\* An index past maxIndex was clamped.
C4_Witness ==
    /\ call.fn = "ensure_index_bounds" /\ call.out # <<>>
    /\ call.args[1] > call.args[2]
    /\ call.out[1] = call.args[2]

\* The image dimension the i-th box coordinate is scaled by.
Dim(size, i) == IF i \in {1, 3} THEN size[1] ELSE size[2]

\* p is n/Den with its fraction dropped (truncated toward zero).
IsTruncation(n, p) ==
    IF n >= 0 THEN p * Den <= n /\ n < (p + 1) * Den
    ELSE (p - 1) * Den < n /\ n <= p * Den

\* C7 as claimed: each corner is the product rounded to the nearest integer.
C7_Rounded ==
    (call.fn = "overlay" /\ call.out # <<>>)
        => \A i \in 1 .. 4 :
              call.out[i] = round(call.args[1][i] * Dim(call.args[2], i), Den)

\* C7 amended: each corner is the product x*W or y*H with its fraction
\* dropped (truncated toward zero, not rounded); box (0, 0, 1, 1) maps to
\* (0, 0, W, H) and box (0.25, 0.25, 0.75, 0.75) on (400, 200) to
\* (100, 50, 300, 150).
C7_Truncated ==
    (call.fn = "overlay" /\ call.out # <<>>)
        => LET bbox == call.args[1]
               size == call.args[2]
           IN  /\ \A i \in 1 .. 4 : IsTruncation(bbox[i] * Dim(size, i), call.out[i])
               /\ bbox = <<0, 0, Den, Den>> => call.out = <<0, 0, size[1], size[2]>>
               /\ (bbox = <<Den \div 4, Den \div 4, 3 * (Den \div 4), 3 * (Den \div 4)>>
                     /\ size = <<400, 200>>)
                    => call.out = <<100, 50, 300, 150>>

\* A box with a coordinate left of the page and products that have
\* fractions: truncation and rounding differ.
C7_Witness ==
    /\ call.fn = "overlay" /\ call.out # <<>>
    /\ call.args[1][1] < 0
    /\ call.out[3] # round(call.args[1][3] * call.args[2][1], Den)


(***************************************************************************)
(* Spec: the application.  Every interaction with a widget reruns main()   *)
(* with the widgets' new values.                                           *)
(***************************************************************************)
Init ==
    /\ InitApp
    /\ InitEnv
    /\ call = NoCall

\* A run of main() and what it leaves behind.
RunMain(w, prev_clicked, next_clicked) ==
    \E r \in {main(w, prev_clicked, next_clicked)} :
        /\ widgets' = w
        /\ session_state' = r.session_state
        /\ cache' = r.cache
        /\ last' = r.last
        /\ view' = r.view
        /\ UNCHANGED <<envVars, pdf_path_exists>>

Run(w, prev_clicked, next_clicked) ==
    /\ RunMain(w, prev_clicked, next_clicked)
    /\ UNCHANGED call

\* The page is opened or reloaded.
Rerun == Run(widgets, FALSE, FALSE)

SetApiKey ==
    \E k \in {"", "key"} \ {widgets.api_key} :
        Run([widgets EXCEPT !.api_key = k], FALSE, FALSE)

\* The JSON uploader is drawn in "Upload JSON" mode only; a widget that was
\* not drawn loses its value.
SetJsonMode ==
    \E m \in {"Upload JSON", "Generate from PDF"} \ {widgets.json_mode} :
        Run([widgets EXCEPT !.json_mode = m, !.json_upload = "none"], FALSE, FALSE)

UploadPdf ==
    \E raw \in (Buffers \cup {"none"}) \ {widgets.pdf_upload} :
        Run([widgets EXCEPT !.pdf_upload = raw], FALSE, FALSE)

UploadJson ==
    /\ widgets.json_mode = "Upload JSON"
    /\ \E raw \in (JsonFiles \cup {"none"}) \ {widgets.json_upload} :
          Run([widgets EXCEPT !.json_upload = raw], FALSE, FALSE)

\* A button can be clicked when the latest run drew it enabled.
ClickPrev ==
    /\ view.buttons /\ ~view.prev_disabled
    /\ Run(widgets, TRUE, FALSE)

ClickNext ==
    /\ view.buttons /\ ~view.next_disabled
    /\ Run(widgets, FALSE, TRUE)

Next ==
    \/ Rerun \/ SetApiKey \/ SetJsonMode \/ UploadPdf \/ UploadJson
    \/ ClickPrev \/ ClickNext \/ SetPdfFile

Spec == Init /\ [][Next]_vars


(***************************************************************************)
(* SpecNav: a collection is uploaded and the buttons are clicked.  call    *)
(* keeps the index the collection started at and the clicks made since.    *)
(***************************************************************************)
StartClicks(start) == [fn |-> "clicks", args |-> <<start>>, out |-> <<>>]

InitNav ==
    /\ InitApp
    /\ InitEnv
    /\ call = StartClicks(-1)

\* A collection is chosen in the JSON uploader, or the upload is removed.
NavUpload ==
    /\ \E raw \in (JsonFiles \cup {"none"}) \ {widgets.json_upload} :
          RunMain([widgets EXCEPT !.json_upload = raw], FALSE, FALSE)
    /\ call' = StartClicks(IF view'.buttons THEN session_state'["pos_index"] ELSE -1)

NavRerun ==
    /\ RunMain(widgets, FALSE, FALSE)
    /\ UNCHANGED call

NavPrev ==
    /\ view.buttons /\ ~view.prev_disabled
    /\ Len(call.out) < MaxClicks
    /\ RunMain(widgets, TRUE, FALSE)
    /\ call' = [call EXCEPT !.out = Append(@, "prev")]

NavNext ==
    /\ view.buttons /\ ~view.next_disabled
    /\ Len(call.out) < MaxClicks
    /\ RunMain(widgets, FALSE, TRUE)
    /\ call' = [call EXCEPT !.out = Append(@, "next")]

NextNav == NavUpload \/ NavRerun \/ NavPrev \/ NavNext

SpecNav == InitNav /\ [][NextNav]_vars

(***************************************************************************)
(* Claims about navigation.                                                *)
(***************************************************************************)
\* The index a click leads to, as the claim states it.
Clicked(i, click, N) ==
    IF click = "next" THEN (IF i < N - 1 THEN i + 1 ELSE N - 1)
    ELSE (IF i > 0 THEN i - 1 ELSE 0)

RECURSIVE Replay(_, _, _)
Replay(i, clicks, N) ==
    IF clicks = <<>> THEN i
    ELSE Replay(Clicked(i, Head(clicks), N), Tail(clicks), N)

\* C5 (SpecNav): with N >= 1 records loaded, after any sequence of Prev and
\* Next clicks pos_index is in [0, N-1] and is the index the clicks lead to
\* from the one the collection started at: Next adds one below N-1 and stays
\* at N-1, Prev takes one off above 0 and stays at 0; for N = 3 from index 0,
\* Next, Next, Prev ends at 1.
C5_Navigation ==
    view.buttons
        => LET N == view.data_len
               i == session_state["pos_index"]
           IN  /\ N >= 1
               /\ i >= 0 /\ i <= N - 1
               /\ i = Replay(call.args[1], call.out, N)
               /\ (N = 3 /\ call.args[1] = 0 /\ call.out = <<"next", "next", "prev">>)
                     => i = 1

\* Three records, from index 0: Next, Next, Prev.
C5_Witness ==
    /\ view.buttons /\ view.data_len = 3
    /\ call.args[1] = 0 /\ call.out = <<"next", "next", "prev">>
    /\ session_state["pos_index"] = 1

\* C6 (Spec): every run that reaches the record lookup uses an index that
\* is in [0, len(data)-1], whatever pos_index the session state held when
\* the run began and whatever the size of the list now loaded; the lookup
\* never raises IndexError.
C6_StaleIndexSafe ==
    view.buttons
        => /\ view.raised # "IndexError"
           /\ view.looked_up >= 0
           /\ view.looked_up <= view.data_len - 1
           /\ view.looked_up = session_state["pos_index"]

\* The session state held an index past the end of a newly loaded, shorter
\* list, and the lookup used the last index of the list.
C6_Witness ==
    /\ view.buttons
    /\ view.stored_index > view.data_len - 1
    /\ view.looked_up = view.data_len - 1
    /\ view.outcome # "raised"

(***************************************************************************)
(* Claims about the display, checked under Spec.                           *)
(***************************************************************************)
\* C3: every image stored in the render cache is free of overlay
\* rectangles, in every state; so is every image a cached renderer returns,
\* on a hit too, and the image shown for a record without a bbox.
C3_CacheOverlayFree ==
    /\ \A k \in DOMAIN cache : cache[k].rects = {}
    /\ (last.called /\ last.ret.ok) => last.ret.val.rects = {}
    /\ (view.outcome = "page" /\ view.bbox.t # "list4")
          => view.images[1].rects = {}

\* A cache hit whose image was shown with a rectangle drawn on it, the
\* stored image being without one.
C3_Witness ==
    /\ last.called /\ ~last.rasterized /\ last.ret.ok
    /\ view.outcome = "page"
    /\ view.images[1].rects # {}
    /\ cache[Args(last)].rects = {}

\* C10 as claimed: a run that reaches the page display lets no exception
\* out of main() and shows exactly one image; the image is the 900x600
\* placeholder, with a warning, when the backend is unavailable or when
\* resolving the page, rendering it or drawing the overlay raised.
C10_FallbackOnFailure ==
    view.buttons
        => /\ view.raised = "none"
           /\ Len(view.images) = 1
           /\ (~fitz_available \/ view.outcome # "page")
                 => /\ view.images[1] = build_placeholder_image
                    /\ view.images[1].size = <<900, 600>>
                    /\ view.warnings >= 1


\* C13 as claimed: when the page was rendered and the record has a bbox of
\* four numbers or none, the run shows the page raster, not the
\* placeholder; without a bbox it shows the raster as rendered.
C13_OverlayTolerant ==
    (view.buttons /\ last.called /\ last.ret.ok /\ view.bbox.t \in {"list4", "none"})
        => /\ view.outcome = "page"
           /\ Len(view.images) = 1
           /\ view.images[1].kind = "page"
           /\ view.bbox.t = "none" => view.images[1] = last.ret.val

\* pos_index of a session state, -1 when the key is absent.
PosIndex(ss) == IF "pos_index" \in DOMAIN ss THEN ss["pos_index"] ELSE -1

\* C14: a run in "Generate from PDF" mode, with or without a PDF or an API
\* key, ends at the st.info of line 122: no buttons, no record lookup, no
\* image, no render request; the cache and pos_index are as before the run.
C14_GenerateNeverViews ==
    [][ widgets'.json_mode = "Generate from PDF"
            => /\ view'.outcome = "info"
               /\ ~view'.buttons
               /\ view'.looked_up = -1
               /\ view'.images = <<>>
               /\ ~last'.called
               /\ cache' = cache
               /\ PosIndex(session_state') = PosIndex(session_state)
      ]_vars

\* Generate mode with a PDF and a key, after a collection was navigated and
\* pages were rendered: pos_index and the cache are still there.
C14_Witness ==
    /\ widgets.json_mode = "Generate from PDF"
    /\ widgets.pdf_upload # "none" /\ widgets.api_key # ""
    /\ view.outcome = "info" /\ view.warnings = 1
    /\ PosIndex(session_state) >= 1
    /\ DOMAIN cache # {}

\* C15 as claimed: a run with an uploaded JSON that no click caused stores
\* the upload's hash; it sets pos_index to 0 when the hash differs from the
\* stored one, leaves pos_index alone when the upload is that of the run
\* before, and starts at record 0 when the upload is a new one.
C15_IndexReset ==
    [][ (view'.buttons /\ view'.clicked = "none")
            => /\ session_state'["json_hash"] = hash(widgets'.json_upload)
               /\ ("json_hash" \notin DOMAIN session_state
                     \/ session_state["json_hash"] # hash(widgets'.json_upload))
                    => session_state'["pos_index"] = 0
               /\ (view.buttons /\ widgets'.json_upload = widgets.json_upload)
                    => session_state'["pos_index"] = session_state["pos_index"]
               /\ widgets'.json_upload # widgets.json_upload
                    => session_state'["pos_index"] = 0
      ]_vars

\* C16 as claimed: a run that displays a record shows the text, page and
\* bbox of the record at the pos_index the run ends with, Prev disabled
\* exactly when that index is 0 and Next exactly when it is N-1.
C16_PairedViews ==
    (view.buttons /\ view.outcome \in {"page", "placeholder"})
        => LET i == session_state["pos_index"]
               data == load_tracing_data_from_bytes(widgets.json_upload)
           IN  /\ view.looked_up = i
               /\ view.text = data[i + 1].text
               /\ view.bbox = data[i + 1].bbox
               /\ view.page_no = ResolvePage(data[i + 1]).val
               /\ view.prev_disabled <=> (i = 0)
               /\ view.next_disabled <=> (i = Len(data) - 1)

====
